---- MODULE Spec2Model ----
(***************************************************************************)
(* Behaviour of the Java code emitted by the javanano enum generators:     *)
(*   - RepeatedEnumFieldGenerator (javanano_enum_field.cc): the merge,     *)
(*     parse, serialize and size fragments of a repeated enum field, with  *)
(*     the packed / unpacked fork and the memoized packed payload size;    *)
(*   - EnumGenerator (javanano_enum.cc): canonical values and aliases.     *)
(* The emitted fragments are modelled by what they do when they run on one *)
(* message instance; the nano runtime they call (CodedOutputStreamNano,    *)
(* CodedInputStreamNano, the array-length helpers) is modelled by its      *)
(* documented wire-format behaviour, on 32-bit two's-complement integers.  *)
(***************************************************************************)
EXTENDS Integers, Sequences, FiniteSets, TLC

\* ------------------------------------------------------------------ bounds
\* Longest element array an instance may hold.
MaxLen == 2
\* Longest run (merge source, or elements carried by one wire occurrence).
MaxRun == 2
\* Most values an enumeration declares.
MaxValues == 3

\* Element values a caller or the wire supplies: a negative number and a
\* two-byte varint (copyOf adds zero, a one-byte varint).
Elements == {-3, 300}
\* Field numbers: one with a one-byte tag, one with a two-byte tag.
FieldNumbers == {1, 16}

RECURSIVE SeqsUpTo(_, _)
SeqsUpTo(S, n) ==
  IF n = 0 THEN {<<>>}
  ELSE LET shorter == SeqsUpTo(S, n - 1)
       IN  shorter \cup {Append(s, x) : s \in {t \in shorter : Len(t) = n - 1}, x \in S}

Runs == SeqsUpTo(Elements, MaxRun)

\* ----------------------------------------------------- wire format (C++)
WIRETYPE_VARINT == 0
WIRETYPE_LENGTH_DELIMITED == 2

\* internal::WireFormat::MakeTag(descriptor): (number << 3) | wire type, the
\* wire type of a packed field being LENGTH_DELIMITED.
MakeTag(num, isPacked) ==
  num * 8 + (IF isPacked THEN WIRETYPE_LENGTH_DELIMITED ELSE WIRETYPE_VARINT)

\* ------------------------------------------- CodedOutputStreamNano (Java)
\* value >>> 7 on a 32-bit int.
LogicalShiftRight7(v) == IF v >= 0 THEN v \div 128 ELSE (v \div 128) + 2^25

\* writeRawVarint32: the int is written as an unsigned 32-bit varint, so a
\* negative value takes five bytes.
RECURSIVE writeRawVarint32(_)
writeRawVarint32(v) ==
  IF v >= 0 /\ v < 128 THEN <<v>>
  ELSE <<(v % 128) + 128>> \o writeRawVarint32(LogicalShiftRight7(v))

\* writeRawVarint64 of a sign-extended negative int: ten groups of seven
\* bits; groups 0..4 come from the int (arithmetic shift), groups 5..8 are
\* all ones and group 9 is the top bit.
RECURSIVE SignExtendedGroups(_, _)
SignExtendedGroups(v, k) ==
  IF k = 9 THEN <<1>>
  ELSE <<(IF k <= 4 THEN (v \div (2^(7 * k))) % 128 ELSE 127) + 128>>
         \o SignExtendedGroups(v, k + 1)

writeRawVarint64(v) == SignExtendedGroups(v, 0)

\* writeInt32NoTag: "must sign-extend" a negative value.
writeInt32NoTag(v) == IF v >= 0 THEN writeRawVarint32(v) ELSE writeRawVarint64(v)

\* writeInt32(fieldNumber, value): writeTag(fieldNumber, VARINT), then the value.
writeInt32(num, v) == writeRawVarint32(MakeTag(num, FALSE)) \o writeInt32NoTag(v)

computeRawVarint32Size(v) ==
  IF v < 0 THEN 5
  ELSE IF v < 2^7 THEN 1
  ELSE IF v < 2^14 THEN 2
  ELSE IF v < 2^21 THEN 3
  ELSE IF v < 2^28 THEN 4
  ELSE 5

computeInt32SizeNoTag(v) == IF v >= 0 THEN computeRawVarint32Size(v) ELSE 10

\* internal::WireFormat::TagSize(number, type): VarintSize32(number << 3).
TagSize(num) == computeRawVarint32Size(num * 8)

\* -------------------------------------------- CodedInputStreamNano (Java)
\* readRawVarint32 at the head of bytes: [ok, value, rest].  Up to five
\* groups make the int (the fifth gives bits 28..31); when the fifth byte
\* still has its continuation bit the upper 32 bits are read and discarded
\* (up to five more bytes).  The input ending first is truncatedMessage, no
\* end within ten bytes is malformedVarint.
Truncated == [ok |-> FALSE, value |-> 0, rest |-> <<>>]

RECURSIVE DiscardUpper(_, _, _)
DiscardUpper(bytes, left, value) ==
  IF left = 0 \/ bytes = <<>> THEN Truncated
  ELSE IF Head(bytes) < 128 THEN [ok |-> TRUE, value |-> value, rest |-> Tail(bytes)]
  ELSE DiscardUpper(Tail(bytes), left - 1, value)

RECURSIVE ReadGroups(_, _, _)
ReadGroups(bytes, k, low) ==
  IF bytes = <<>> THEN Truncated
  ELSE LET b == Head(bytes)
       IN  IF k < 4
           THEN IF b < 128
                THEN [ok |-> TRUE, value |-> low + b * 2^(7 * k), rest |-> Tail(bytes)]
                ELSE ReadGroups(Tail(bytes), k + 1, low + (b - 128) * 2^(7 * k))
           ELSE LET hi == b % 16
                    value == (IF hi >= 8 THEN hi - 16 ELSE hi) * 2^28 + low
                IN  IF b < 128
                    THEN [ok |-> TRUE, value |-> value, rest |-> Tail(bytes)]
                    ELSE DiscardUpper(Tail(bytes), 5, value)

readRawVarint32(bytes) == ReadGroups(bytes, 0, 0)

\* readInt32 is readRawVarint32.
readInt32(bytes) == readRawVarint32(bytes)

\* Number of varints in a span; -1 when the span ends inside one.
RECURSIVE CountVarints(_)
CountVarints(bytes) ==
  IF bytes = <<>> THEN 0
  ELSE LET r == readRawVarint32(bytes)
       IN  IF ~r.ok THEN -1
           ELSE LET n == CountVarints(r.rest)
                IN  IF n < 0 THEN -1 ELSE n + 1

\* n values read one after the other: [ok, values, rest].
RECURSIVE ReadValues(_, _)
ReadValues(bytes, n) ==
  IF n = 0 THEN [ok |-> TRUE, values |-> <<>>, rest |-> bytes]
  ELSE LET r == readInt32(bytes)
       IN  IF ~r.ok THEN [ok |-> FALSE, values |-> <<>>, rest |-> <<>>]
           ELSE LET more == ReadValues(r.rest, n - 1)
                IN  [ok |-> more.ok, values |-> <<r.value>> \o more.values,
                     rest |-> more.rest]

\* ------------------------------------------------ array-length helpers
\* getPackedRepeatedFieldArrayLength(input, tag): the number of elements in
\* the span the pushed limit delimits.
getPackedRepeatedFieldArrayLength(span) == CountVarints(span)

\* readTag: 0 at the end of the input, else one varint.
readTag(bytes) ==
  IF bytes = <<>> THEN [ok |-> TRUE, value |-> 0, rest |-> <<>>]
  ELSE readRawVarint32(bytes)

\* getRepeatedFieldArrayLength(input, tag): called with the first tag of the
\* run already read; 1 + the number of following (tag, value) pairs carrying
\* the same tag.  The input position is restored afterwards.
RECURSIVE getRepeatedFieldArrayLength(_, _)
getRepeatedFieldArrayLength(bytes, tag) ==
  LET v == readRawVarint32(bytes)                    \* skipField(tag)
  IN  IF ~v.ok THEN -1
      ELSE IF v.rest = <<>> THEN 1
      ELSE LET t == readTag(v.rest)
           IN  IF ~t.ok THEN -1
               ELSE IF t.value # tag THEN 1
               ELSE LET n == getRepeatedFieldArrayLength(t.rest, tag)
                    IN  IF n < 0 THEN -1 ELSE n + 1

\* ------------------------------------------------------- java.util / lang
\* java.util.Arrays.copyOf(original, newLength): truncates or pads with 0.
copyOf(original, newLength) ==
  [k \in 1..newLength |-> IF k <= Len(original) THEN original[k] ELSE 0]

\* java.lang.System.arraycopy(src, 0, dest, destPos, length), destPos counted
\* from 0: [thrown, dest].  Throws when the copy would leave dest.
arraycopy(src, dest, destPos, length) ==
  IF destPos < 0 \/ length > Len(src) \/ destPos + length > Len(dest)
  THEN [thrown |-> TRUE, dest |-> dest]
  ELSE [thrown |-> FALSE,
        dest |-> [k \in 1..Len(dest) |->
                    IF k > destPos /\ k <= destPos + length
                    THEN src[k - destPos] ELSE dest[k]]]

\* ---------------------------- RepeatedEnumFieldGenerator: emitted fragments
\* GenerateMergingCode.  The fragment copies other's elements to position
\* results.$name$.length of the merged array; `results' is a name the fragment
\* does not define (the destination is `result'), so the length it yields is
\* an input of its own, resultsLength.  [thrown, name]: the destination array.
MergingCode(result, other, resultsLength) ==
  IF Len(other) > 0
  THEN LET merged == copyOf(result, Len(result) + Len(other))
           copied == arraycopy(other, merged, resultsLength, Len(other))
       IN  IF copied.thrown THEN [thrown |-> TRUE, name |-> result]
           ELSE [thrown |-> FALSE, name |-> copied.dest]
  ELSE [thrown |-> FALSE, name |-> result]

\* Mutant: the packed branch grows the array like the unpacked one.
PackedParsingCodeGrows(name, bytes) ==
  LET len == readRawVarint32(bytes)
      failed == [thrown |-> TRUE, name |-> name, rest |-> <<>>]
  IN  IF ~len.ok THEN failed
      ELSE IF len.value < 0 \/ len.value > Len(len.rest) THEN failed
      ELSE LET span == SubSeq(len.rest, 1, len.value)
               arrayLength == getPackedRepeatedFieldArrayLength(span)
           IN  IF arrayLength < 0 THEN failed
               ELSE LET read == ReadValues(span, arrayLength)
                    IN  [thrown |-> ~read.ok, name |-> name \o read.values,
                         rest |-> SubSeq(len.rest, len.value + 1, Len(len.rest))]

\* GenerateParsingCode, packed branch, on the bytes that follow the tag:
\* [thrown, name, rest].
PackedParsingCode(name, bytes) ==
  LET len == readRawVarint32(bytes)        \* int length = input.readRawVarint32()
      failed == [thrown |-> TRUE, name |-> name, rest |-> <<>>]
  IN  IF ~len.ok THEN failed
      \* int limit = input.pushLimit(length)
      ELSE IF len.value < 0 \/ len.value > Len(len.rest) THEN failed
      ELSE LET span == SubSeq(len.rest, 1, len.value)
               arrayLength == getPackedRepeatedFieldArrayLength(span)
           IN  IF arrayLength < 0 THEN failed
               ELSE LET read == ReadValues(span, arrayLength)
                    IN  \* $name$ = new int[arrayLength], filled from index 0
                        [thrown |-> ~read.ok, name |-> read.values,
                         rest |-> SubSeq(len.rest, len.value + 1, Len(len.rest))]

\* Mutant: a tag is read after every element, the last one too.
RECURSIVE UnpackedLoopReadsEveryTag(_, _, _)
UnpackedLoopReadsEveryTag(name, i, bytes) ==
  LET v == readInt32(bytes)
  IN  IF ~v.ok \/ i >= Len(name) THEN [thrown |-> TRUE, name |-> name, rest |-> <<>>]
      ELSE LET stored == [name EXCEPT ![i + 1] = v.value]
               t == readTag(v.rest)
           IN  IF ~t.ok THEN [thrown |-> TRUE, name |-> stored, rest |-> <<>>]
               ELSE IF i < Len(name) - 1
               THEN UnpackedLoopReadsEveryTag(stored, i + 1, t.rest)
               ELSE [thrown |-> FALSE, name |-> stored, rest |-> t.rest]

\* The unpacked loop: for (; i < $name$.length - 1; i++) { $name$[i] =
\* input.readInt32(); input.readTag(); } and, the last one without readTag,
\* $name$[i] = input.readInt32().  i counts from 0.
RECURSIVE UnpackedLoop(_, _, _)
UnpackedLoop(name, i, bytes) ==
  LET v == readInt32(bytes)
  IN  IF ~v.ok \/ i >= Len(name) THEN [thrown |-> TRUE, name |-> name, rest |-> <<>>]
      ELSE LET stored == [name EXCEPT ![i + 1] = v.value]
           IN  IF i < Len(name) - 1
               THEN LET t == readTag(v.rest)
                    IN  IF ~t.ok THEN [thrown |-> TRUE, name |-> stored, rest |-> <<>>]
                        ELSE UnpackedLoop(stored, i + 1, t.rest)
               ELSE [thrown |-> FALSE, name |-> stored, rest |-> v.rest]

\* Mutant: the unpacked branch allocates a new array instead of growing.
UnpackedParsingCodeReplaces(name, bytes, tag) ==
  LET arrayLength == getRepeatedFieldArrayLength(bytes, tag)
  IN  IF arrayLength < 0 THEN [thrown |-> TRUE, name |-> name, rest |-> <<>>]
      ELSE UnpackedLoop(copyOf(<<>>, arrayLength), 0, bytes)

\* GenerateParsingCode, unpacked branch, on the bytes that follow the first
\* tag of the run: [thrown, name, rest].
UnpackedParsingCode(name, bytes, tag) ==
  LET arrayLength == getRepeatedFieldArrayLength(bytes, tag)
  IN  IF arrayLength < 0 THEN [thrown |-> TRUE, name |-> name, rest |-> <<>>]
      ELSE UnpackedLoop(copyOf(name, Len(name) + arrayLength), Len(name), bytes)

ParsingCode(name, bytes, num, isPacked) ==
  IF isPacked THEN PackedParsingCode(name, bytes)
  ELSE UnpackedParsingCode(name, bytes, MakeTag(num, FALSE))

RECURSIVE WriteElements(_, _, _)
WriteElements(name, num, isPacked) ==
  IF name = <<>> THEN <<>>
  ELSE (IF isPacked THEN writeRawVarint32(Head(name)) ELSE writeInt32(num, Head(name)))
       \o WriteElements(Tail(name), num, isPacked)

RECURSIVE DataSize(_)
DataSize(name) ==
  IF name = <<>> THEN 0
  ELSE computeInt32SizeNoTag(Head(name)) + DataSize(Tail(name))

\* Mutant: Serialize walks the elements again for the length prefix.
SerializationCodeRecomputes(name, memoizedSerializedSize, num, isPacked) ==
  IF Len(name) > 0
  THEN IF isPacked
       THEN writeRawVarint32(MakeTag(num, TRUE))
            \o writeRawVarint32(DataSize(name))
            \o WriteElements(name, num, TRUE)
       ELSE WriteElements(name, num, FALSE)
  ELSE <<>>

\* GenerateSerializationCode: the bytes written.
SerializationCode(name, memoizedSerializedSize, num, isPacked) ==
  IF Len(name) > 0
  THEN IF isPacked
       THEN writeRawVarint32(MakeTag(num, TRUE))
            \o writeRawVarint32(memoizedSerializedSize)
            \o WriteElements(name, num, TRUE)
       ELSE WriteElements(name, num, FALSE)
  ELSE <<>>

\* Mutant: the cache cell is given everything the field adds to size.
SerializedSizeCodeCachesTotal(name, memoizedSerializedSize, num, isPacked) ==
  IF Len(name) > 0
  THEN LET dataSize == DataSize(name)
       IN  IF isPacked
           THEN [size |-> dataSize + TagSize(num) + computeRawVarint32Size(dataSize),
                 memo |-> dataSize + TagSize(num) + computeRawVarint32Size(dataSize)]
           ELSE [size |-> dataSize + TagSize(num) * Len(name),
                 memo |-> memoizedSerializedSize]
  ELSE [size |-> 0, memo |-> IF isPacked THEN 0 ELSE memoizedSerializedSize]

\* Mutant: an unpacked field counts its tag once.
SerializedSizeCodeOneTag(name, memoizedSerializedSize, num, isPacked) ==
  IF Len(name) > 0
  THEN LET dataSize == DataSize(name)
       IN  IF isPacked
           THEN [size |-> dataSize + TagSize(num) + computeRawVarint32Size(dataSize),
                 memo |-> dataSize]
           ELSE [size |-> dataSize + TagSize(num),
                 memo |-> memoizedSerializedSize]
  ELSE [size |-> 0, memo |-> IF isPacked THEN 0 ELSE memoizedSerializedSize]

\* Mutant: no else branch, an empty field leaves the cache cell alone.
SerializedSizeCodeKeepsCache(name, memoizedSerializedSize, num, isPacked) ==
  IF Len(name) > 0
  THEN LET dataSize == DataSize(name)
       IN  IF isPacked
           THEN [size |-> dataSize + TagSize(num) + computeRawVarint32Size(dataSize),
                 memo |-> dataSize]
           ELSE [size |-> dataSize + TagSize(num) * Len(name),
                 memo |-> memoizedSerializedSize]
  ELSE [size |-> 0, memo |-> memoizedSerializedSize]

\* GenerateSerializedSizeCode: [size, memo], what the fragment adds to size
\* and the cache cell afterwards (an unpacked field has no cache cell).
SerializedSizeCode(name, memoizedSerializedSize, num, isPacked) ==
  IF Len(name) > 0
  THEN LET dataSize == DataSize(name)
       IN  IF isPacked
           THEN [size |-> dataSize + TagSize(num) + computeRawVarint32Size(dataSize),
                 memo |-> dataSize]
           ELSE [size |-> dataSize + TagSize(num) * Len(name),
                 memo |-> memoizedSerializedSize]
  ELSE [size |-> 0, memo |-> IF isPacked THEN 0 ELSE memoizedSerializedSize]

\* ------------------------------------------------------------ wire input
\* One occurrence of the field as a conforming writer puts it on the wire:
\* packed, a tag, the payload length and the elements; unpacked, a tag before
\* every element.  Enum values are written sign-extended.
RECURSIVE Payload(_)
Payload(run) ==
  IF run = <<>> THEN <<>> ELSE writeInt32NoTag(Head(run)) \o Payload(Tail(run))

WireOccurrence(run, num, isPacked) ==
  IF isPacked
  THEN writeRawVarint32(MakeTag(num, TRUE)) \o writeRawVarint32(Len(Payload(run)))
       \o Payload(run)
  ELSE WriteElements(run, num, FALSE)

\* The message's parse loop on one occurrence: readTag, and on this field's
\* tag the parsing code.  [thrown, name, rest].
ParseOccurrence(name, bytes, num, isPacked) ==
  LET t == readTag(bytes)
  IN  IF ~t.ok \/ t.value # MakeTag(num, isPacked)
      THEN [thrown |-> TRUE, name |-> name, rest |-> <<>>]
      ELSE ParsingCode(name, t.rest, num, isPacked)

\* ------------------------------------------------------------ EnumGenerator
\* Numbers a declared value may carry, and the declared name of the value at
\* each declaration index (one of them a Java keyword).
EnumNumbers == {-1, 0, 12}
ValueNames == <<"FOO", "BAR", "class", "BAZ", "QUX">>
JavaKeywords == {"class", "int", "static"}

RECURSIVE ValueLists(_)
ValueLists(n) ==
  IF n = 0 THEN {<<>>}
  ELSE LET shorter == ValueLists(n - 1)
       IN  shorter \cup
           {Append(v, [name |-> ValueNames[n], number |-> x]) :
              v \in {w \in shorter : Len(w) = n - 1}, x \in EnumNumbers}

\* EnumDescriptor::FindValueByNumber(number): the first value defined with
\* that number (as its index in the descriptor), 0 for none.
FindValueByNumber(vals, num) ==
  LET same == {k \in 1..Len(vals) : vals[k].number = num}
  IN  IF same = {} THEN 0 ELSE CHOOSE k \in same : \A j \in same : k <= j

\* RenameJavaKeywords(name): a Java keyword gets a trailing underscore.
RenameJavaKeywords(name) == IF name \in JavaKeywords THEN name \o "_" ELSE name

\* SimpleItoa(i): the decimal text of i.
DigitText == <<"0", "1", "2", "3", "4", "5", "6", "7", "8", "9">>

RECURSIVE SimpleItoa(_)
SimpleItoa(n) ==
  IF n < 0 THEN "-" \o SimpleItoa(-n)
  ELSE IF n < 10 THEN DigitText[n + 1]
  ELSE SimpleItoa(n \div 10) \o DigitText[(n % 10) + 1]

VARIABLES
  descriptor_,        \* the enumeration: its values in declaration order
  java_enum_style,    \* params_.java_enum_style()
  canonical_values_,  \* vector<const EnumValueDescriptor*>, as value indices
  aliases_,           \* vector<Alias>: [value, canonical_value], as indices
  printed,            \* the lines Generate has printed
  pc,                 \* where the generator is
  i                   \* the running loop's index (from 0)

enumVars == <<descriptor_, java_enum_style, canonical_values_, aliases_, printed, pc, i>>

EnumInit ==
  /\ descriptor_ \in ValueLists(MaxValues)
  /\ java_enum_style \in BOOLEAN
  /\ canonical_values_ = <<>>
  /\ aliases_ = <<>>
  /\ printed = <<>>
  /\ pc = "EnumGenerator"
  /\ i = 0

\* Mutant: the constructor compares the numbers, not the descriptors.
ConstructorStepByNumber ==
  /\ pc = "EnumGenerator"
  /\ i < Len(descriptor_)
  /\ LET value == i + 1
         canonical_value == FindValueByNumber(descriptor_, descriptor_[value].number)
     IN  IF descriptor_[value].number = descriptor_[canonical_value].number
         THEN /\ canonical_values_' = Append(canonical_values_, value)
              /\ UNCHANGED aliases_
         ELSE /\ aliases_' = Append(aliases_, [value |-> value,
                                               canonical_value |-> canonical_value])
              /\ UNCHANGED canonical_values_
  /\ i' = i + 1
  /\ UNCHANGED <<descriptor_, java_enum_style, printed, pc>>

\* Mutant: an alias refers to the value declared just before it.
ConstructorStepChains ==
  /\ pc = "EnumGenerator"
  /\ i < Len(descriptor_)
  /\ LET value == i + 1
         canonical_value == FindValueByNumber(descriptor_, descriptor_[value].number)
     IN  IF value = canonical_value
         THEN /\ canonical_values_' = Append(canonical_values_, value)
              /\ UNCHANGED aliases_
         ELSE /\ aliases_' = Append(aliases_, [value |-> value,
                                               canonical_value |-> value - 1])
              /\ UNCHANGED canonical_values_
  /\ i' = i + 1
  /\ UNCHANGED <<descriptor_, java_enum_style, printed, pc>>

\* One iteration of the constructor's loop over descriptor_->value(i).
ConstructorStep ==
  /\ pc = "EnumGenerator"
  /\ i < Len(descriptor_)
  /\ LET value == i + 1
         canonical_value == FindValueByNumber(descriptor_, descriptor_[value].number)
     IN  IF value = canonical_value
         THEN /\ canonical_values_' = Append(canonical_values_, value)
              /\ UNCHANGED aliases_
         ELSE /\ aliases_' = Append(aliases_, [value |-> value,
                                               canonical_value |-> canonical_value])
              /\ UNCHANGED canonical_values_
  /\ i' = i + 1
  /\ UNCHANGED <<descriptor_, java_enum_style, printed, pc>>

\* The constructor returns; Generate starts: the comment line and, with
\* java_enum_style, the opening of the shell class.
GenerateStart ==
  /\ pc = "EnumGenerator"
  /\ i = Len(descriptor_)
  /\ printed' = <<[kind |-> "comment", name |-> "", value |-> ""]>>
                \o (IF java_enum_style
                    THEN <<[kind |-> "class", name |-> "", value |-> ""]>> ELSE <<>>)
  /\ pc' = "canonical"
  /\ i' = 0
  /\ UNCHANGED <<descriptor_, java_enum_style, canonical_values_, aliases_>>

\* One iteration of the loop over canonical_values_.
GenerateCanonical ==
  /\ pc = "canonical"
  /\ i < Len(canonical_values_)
  /\ printed' = Append(printed,
       [kind |-> "const",
        name |-> RenameJavaKeywords(descriptor_[canonical_values_[i + 1]].name),
        value |-> SimpleItoa(descriptor_[canonical_values_[i + 1]].number)])
  /\ i' = i + 1
  /\ UNCHANGED <<descriptor_, java_enum_style, canonical_values_, aliases_, pc>>

GenerateAliasesStart ==
  /\ pc = "canonical"
  /\ i = Len(canonical_values_)
  /\ pc' = "aliases"
  /\ i' = 0
  /\ UNCHANGED <<descriptor_, java_enum_style, canonical_values_, aliases_, printed>>

\* Mutant: an alias is printed with its number, like a canonical value.
GenerateAliasLiteral ==
  /\ pc = "aliases"
  /\ i < Len(aliases_)
  /\ printed' = Append(printed,
       [kind |-> "const",
        name |-> RenameJavaKeywords(descriptor_[aliases_[i + 1].value].name),
        value |-> SimpleItoa(descriptor_[aliases_[i + 1].value].number)])
  /\ i' = i + 1
  /\ UNCHANGED <<descriptor_, java_enum_style, canonical_values_, aliases_, pc>>

\* One iteration of the loop over aliases_.
GenerateAlias ==
  /\ pc = "aliases"
  /\ i < Len(aliases_)
  /\ printed' = Append(printed,
       [kind |-> "const",
        name |-> RenameJavaKeywords(descriptor_[aliases_[i + 1].value].name),
        value |-> RenameJavaKeywords(descriptor_[aliases_[i + 1].canonical_value].name)])
  /\ i' = i + 1
  /\ UNCHANGED <<descriptor_, java_enum_style, canonical_values_, aliases_, pc>>

\* The end of the shell class and the closing blank line.
GenerateEnd ==
  /\ pc = "aliases"
  /\ i = Len(aliases_)
  /\ printed' = printed
                \o (IF java_enum_style
                    THEN <<[kind |-> "end", name |-> "", value |-> ""]>> ELSE <<>>)
                \o <<[kind |-> "blank", name |-> "", value |-> ""]>>
  /\ pc' = "done"
  /\ UNCHANGED <<descriptor_, java_enum_style, canonical_values_, aliases_, i>>

\* ------------------------------------------------- one message instance
VARIABLES
  packed,                  \* descriptor_->options().packed()
  number,                  \* descriptor_->number()
  field,                   \* public int[] $name$ of this instance
  MemoizedSerializedSize,  \* private int $name$MemoizedSerializedSize
  other,                   \* $name$ of the instance the last merge read
  size,                    \* what the last Size added to size
  output,                  \* the bytes the last Serialize wrote
  thrown,                  \* the last operation ended by an exception
  lastOp,                  \* the last operation run on the instance
  fresh,                   \* Size has run and the elements are unchanged since
  memoBefore,              \* the cache cell as the last operation found it
  run                      \* the elements of the occurrence the last Parse read

fieldVars == <<packed, number, field, MemoizedSerializedSize, other, size, output,
               thrown, lastOp, fresh, memoBefore, run>>

FieldInit ==
  /\ packed \in BOOLEAN
  /\ number \in FieldNumbers
  /\ field = <<>>                      \* EMPTY_INT_ARRAY
  /\ MemoizedSerializedSize = 0        \* a Java int field starts at 0
  /\ other = <<>>
  /\ size = 0
  /\ output = <<>>
  /\ thrown = FALSE
  /\ lastOp = "new"
  /\ fresh = FALSE
  /\ memoBefore = 0
  /\ run = <<>>

\* Mutant: a merge that changes the elements clears the cache cell.
MergeInvalidatesCache ==
  \E source \in Runs, resultsLength \in 0..MaxLen :
    LET merged == MergingCode(field, source, resultsLength)
    IN  /\ Len(field) + Len(source) <= MaxLen
        /\ field' = merged.name
        /\ other' = source
        /\ thrown' = merged.thrown
        /\ lastOp' = "Merge"
        /\ fresh' = (fresh /\ field' = field)
        /\ memoBefore' = MemoizedSerializedSize
        /\ MemoizedSerializedSize' = (IF field' = field THEN MemoizedSerializedSize ELSE 0)
        /\ run' = <<>>
        /\ output' = <<>>
        /\ UNCHANGED <<packed, number, size>>

\* result.mergeFrom(other): the merging code; resultsLength is what
\* results.$name$.length evaluates to.
Merge ==
  \E source \in Runs, resultsLength \in 0..MaxLen :
    LET merged == MergingCode(field, source, resultsLength)
    IN  /\ Len(field) + Len(source) <= MaxLen
        /\ field' = merged.name
        /\ other' = source          \* no assignment to other.$name$
        /\ thrown' = merged.thrown
        /\ lastOp' = "Merge"
        /\ fresh' = (fresh /\ field' = field)
        /\ memoBefore' = MemoizedSerializedSize
        /\ run' = <<>>
        /\ output' = <<>>
        /\ UNCHANGED <<packed, number, MemoizedSerializedSize, size>>

\* One occurrence of the field read from the wire.
Parse ==
  \E elements \in Runs :
    LET parsed == ParseOccurrence(field, WireOccurrence(elements, number, packed),
                                  number, packed)
    IN  /\ packed \/ Len(elements) > 0
        /\ packed \/ Len(field) + Len(elements) <= MaxLen
        /\ field' = parsed.name
        /\ thrown' = parsed.thrown
        /\ lastOp' = "Parse"
        /\ fresh' = (fresh /\ field' = field)
        /\ memoBefore' = MemoizedSerializedSize
        /\ run' = elements
        /\ output' = <<>>
        /\ other' = <<>>
        /\ UNCHANGED <<packed, number, MemoizedSerializedSize, size>>

\* getSerializedSize(): the size code.
Size ==
  LET computed == SerializedSizeCode(field, MemoizedSerializedSize, number, packed)
  IN  /\ size' = computed.size
      /\ MemoizedSerializedSize' = computed.memo
      /\ thrown' = FALSE
      /\ lastOp' = "Size"
      /\ fresh' = TRUE
      /\ memoBefore' = MemoizedSerializedSize
      /\ run' = <<>>
      /\ output' = <<>>
      /\ other' = <<>>
      /\ UNCHANGED <<packed, number, field>>

\* Mutant: Serialize clears the cache cell when the field is empty.
SerializeResetsCache ==
  /\ output' = SerializationCode(field, MemoizedSerializedSize, number, packed)
  /\ MemoizedSerializedSize' = (IF Len(field) > 0 THEN MemoizedSerializedSize ELSE 0)
  /\ thrown' = FALSE
  /\ lastOp' = "Serialize"
  /\ memoBefore' = MemoizedSerializedSize
  /\ run' = <<>>
  /\ other' = <<>>
  /\ UNCHANGED <<packed, number, field, size, fresh>>

\* writeTo(output): the serialization code.
Serialize ==
  /\ output' = SerializationCode(field, MemoizedSerializedSize, number, packed)
  /\ thrown' = FALSE
  /\ lastOp' = "Serialize"
  /\ memoBefore' = MemoizedSerializedSize
  /\ run' = <<>>
  /\ other' = <<>>
  /\ UNCHANGED <<packed, number, field, MemoizedSerializedSize, size, fresh>>

\* ------------------------------------ EnumFieldGenerator: a singular field
\* The ints a singular field is given (numbers no enum value has among them)
\* and the defaults a field declares.
MinInt == -2147483647 - 1
MaxInt == 2147483647
Ints == {MinInt, -1, 0, 1, 127, 128, MaxInt}
Defaults == {-1, 0, 1}

\* CodedOutputStreamNano.computeInt32Size(fieldNumber, value).
computeInt32Size(num, v) == TagSize(num) + computeInt32SizeNoTag(v)

\* Mutant: the parsed number is kept only when it differs from zero.
SingularParsingCodeChecks(name, bytes) ==
  LET v == readInt32(bytes)
  IN  IF v.ok THEN [thrown |-> FALSE,
                    name |-> IF v.value > 0 THEN v.value ELSE name, rest |-> v.rest]
      ELSE [thrown |-> TRUE, name |-> name, rest |-> <<>>]

\* GenerateParsingCode on the bytes that follow the tag: $name$ =
\* input.readInt32().  [thrown, name, rest].
SingularParsingCode(name, bytes) ==
  LET v == readInt32(bytes)
  IN  IF v.ok THEN [thrown |-> FALSE, name |-> v.value, rest |-> v.rest]
      ELSE [thrown |-> TRUE, name |-> name, rest |-> <<>>]

\* GenerateSerializationCode: the bytes written.
SingularSerializationCode(name, default, num) ==
  IF name # default THEN writeInt32(num, name) ELSE <<>>

\* Mutant: the size of a value that is not negative is added for every value.
SingularSerializedSizeCodeUnsigned(name, default, num) ==
  IF name # default THEN TagSize(num) + computeRawVarint32Size(name) ELSE 0

\* GenerateSerializedSizeCode: what the fragment adds to size.
SingularSerializedSizeCode(name, default, num) ==
  IF name # default THEN computeInt32Size(num, name) ELSE 0

\* The message's parse loop on a singular field: readTag, and on this field's
\* tag the parsing code.
ParseSingular(name, bytes, num) ==
  LET t == readTag(bytes)
  IN  IF ~t.ok \/ t.value # MakeTag(num, FALSE)
      THEN [thrown |-> TRUE, name |-> name, rest |-> <<>>]
      ELSE SingularParsingCode(name, t.rest)

VARIABLES
  singular,          \* public int $name$ of this instance
  singularDefault,   \* $default$
  singularNumber,    \* $number$
  singularOutput,    \* the bytes the last Serialize wrote
  singularSize,      \* what the last Size added to size
  singularThrown,    \* the last operation ended by an exception
  singularOp,        \* the last operation run on the instance
  sent               \* the number the last Parse found on the wire

singularVars == <<singular, singularDefault, singularNumber, singularOutput,
                  singularSize, singularThrown, singularOp, sent>>

SingularInit ==
  /\ singularDefault \in Defaults
  /\ singularNumber \in FieldNumbers
  /\ singular = singularDefault        \* public int $name$ = $default$
  /\ singularOutput = <<>>
  /\ singularSize = 0
  /\ singularThrown = FALSE
  /\ singularOp = "new"
  /\ sent = 0

SingularIdle ==
  /\ singularDefault = 0
  /\ singularNumber = 1
  /\ singular = 0
  /\ singularOutput = <<>>
  /\ singularSize = 0
  /\ singularThrown = FALSE
  /\ singularOp = "idle"
  /\ sent = 0

\* The field is public: the program assigns it.
SingularAssign ==
  \E v \in Ints :
    /\ singular' = v
    /\ singularOp' = "Assign"
    /\ singularThrown' = FALSE
    /\ singularOutput' = <<>>
    /\ sent' = 0
    /\ UNCHANGED <<singularDefault, singularNumber, singularSize>>

\* The merging code: if (other.has...()) { set...(other.get...()); }.
SingularMerge ==
  \E has \in BOOLEAN, v \in Ints :
    /\ singular' = (IF has THEN v ELSE singular)
    /\ singularOp' = "Merge"
    /\ singularThrown' = FALSE
    /\ singularOutput' = <<>>
    /\ sent' = 0
    /\ UNCHANGED <<singularDefault, singularNumber, singularSize>>

\* One occurrence of the field read from the wire, as a writer sends it.
SingularParse ==
  \E v \in Ints :
    LET parsed == ParseSingular(singular, writeInt32(singularNumber, v), singularNumber)
    IN  /\ singular' = parsed.name
        /\ singularThrown' = parsed.thrown
        /\ singularOp' = "Parse"
        /\ singularOutput' = <<>>
        /\ sent' = v
        /\ UNCHANGED <<singularDefault, singularNumber, singularSize>>

SingularSize ==
  /\ singularSize' = SingularSerializedSizeCode(singular, singularDefault, singularNumber)
  /\ singularOp' = "Size"
  /\ singularThrown' = FALSE
  /\ singularOutput' = <<>>
  /\ sent' = 0
  /\ UNCHANGED <<singular, singularDefault, singularNumber>>

SingularSerialize ==
  /\ singularOutput' = SingularSerializationCode(singular, singularDefault, singularNumber)
  /\ singularOp' = "Serialize"
  /\ singularThrown' = FALSE
  /\ sent' = 0
  /\ UNCHANGED <<singular, singularDefault, singularNumber, singularSize>>

\* --------------------------------------------- the generators: emission
\* A field descriptor: the words of its name, its number, packed option,
\* default and containing type.  The printer indents by two spaces a level.
Words == {"kind", "my"}
Capital == [w \in Words |-> IF w = "kind" THEN "Kind" ELSE "My"]
FieldNames == {<<"kind">>, <<"my", "kind">>}
DefaultTexts == {"0", "Kind.FOO"}
Indents == {0, 1}
Ops == {"storage", "merge", "parse", "serialize", "size"}

\* UnderscoresToCamelCase / UnderscoresToCapitalizedCamelCase of a name given
\* as its underscore-separated words.
RECURSIVE CapitalizedCamelCase(_)
CapitalizedCamelCase(words) ==
  IF words = <<>> THEN ""
  ELSE Capital[Head(words)] \o CapitalizedCamelCase(Tail(words))

UnderscoresToCamelCase(words) == Head(words) \o CapitalizedCamelCase(Tail(words))

SetEnumVariables(descriptor) ==
  [name |-> UnderscoresToCamelCase(descriptor.name),
   capitalized_name |-> CapitalizedCamelCase(descriptor.name),
   number |-> SimpleItoa(descriptor.number),
   type |-> "int",
   default |-> descriptor.default,
   tag |-> SimpleItoa(MakeTag(descriptor.number, descriptor.repeated /\ descriptor.packed)),
   tag_size |-> SimpleItoa(TagSize(descriptor.number)),
   message_name |-> descriptor.containing_type]

\* io::Printer::Print: every line of the text at the printer's indentation.
PrintLines(indent, lines) ==
  [k \in 1..Len(lines) |-> [indent |-> indent, text |-> lines[k]]]

\* EnumFieldGenerator: the lines each method prints, [printed, indent].
EnumFieldMembers(v, indent) ==
  [printed |-> PrintLines(indent, <<"public int " \o v.name \o " = " \o v.default \o ";">>),
   indent |-> indent]

EnumFieldMergingCode(v, indent) ==
  [printed |-> PrintLines(indent,
     <<"what is other??if (other.has" \o v.capitalized_name \o "()) {",
       "  set" \o v.capitalized_name \o "(other.get" \o v.capitalized_name \o "());",
       "}">>),
   indent |-> indent]

EnumFieldParsingCode(v, indent) ==
  [printed |-> PrintLines(indent, <<"  " \o v.name \o " = input.readInt32();">>),
   indent |-> indent]

EnumFieldSerializationCode(v, indent) ==
  [printed |-> PrintLines(indent,
     <<"if (" \o v.name \o " != " \o v.default \o ") {",
       "  output.writeInt32(" \o v.number \o ", " \o v.name \o ");",
       "}">>),
   indent |-> indent]

EnumFieldSerializedSizeCode(v, indent) ==
  [printed |-> PrintLines(indent,
     <<"if (" \o v.name \o " != " \o v.default \o ") {",
       "  size += com.google.protobuf.nano.CodedOutputStreamNano",
       "    .computeInt32Size(" \o v.number \o ", " \o v.name \o ");",
       "}">>),
   indent |-> indent]

\* RepeatedEnumFieldGenerator: the lines each method prints, [printed, indent].
RepeatedMembers(v, isPacked, indent) ==
  [printed |->
     PrintLines(indent, <<"public int[] " \o v.name \o " = EMPTY_INT_ARRAY;">>)
     \o (IF isPacked
         THEN PrintLines(indent, <<"private int " \o v.name \o "MemoizedSerializedSize;">>)
         ELSE <<>>),
   indent |-> indent]

RepeatedMergingCode(v, indent) ==
  [printed |-> PrintLines(indent,
     <<"if (other." \o v.name \o ".length > 0) {",
       "  int[] merged = java.util.Arrays.copyOf(result." \o v.name \o ", result."
         \o v.name \o ".length + other." \o v.name \o ".length);",
       "  java.lang.System.arraycopy(other." \o v.name \o ", 0, merged, results."
         \o v.name \o ".length, other." \o v.name \o ".length);",
       "  result." \o v.name \o " = merged;",
       "}">>),
   indent |-> indent]

RepeatedParsingCode(v, isPacked, indent) ==
  [printed |->
     IF isPacked
     THEN PrintLines(indent,
       <<"int length = input.readRawVarint32();",
         "int limit = input.pushLimit(length);",
         "int arrayLength = getPackedRepeatedFieldArrayLength(input, " \o v.tag \o ");",
         v.name \o " = new " \o v.type \o "[arrayLength];",
         "for (int i = 0; i < arrayLength; i++) {",
         "  " \o v.name \o "[i] = input.readInt32();",
         "}",
         "input.popLimit(limit);">>)
     ELSE PrintLines(indent,
       <<"int arrayLength = getRepeatedFieldArrayLength(input, " \o v.tag \o ");",
         "int i = " \o v.name \o ".length;",
         v.name \o " = java.util.Arrays.copyOf(" \o v.name \o ", " \o v.name
           \o ".length + arrayLength);",
         "for (; i < " \o v.name \o ".length - 1; i++) {",
         "  " \o v.name \o "[i] = input.readInt32();",
         "  input.readTag();",
         "}",
         "// Last one without readTag.",
         v.name \o "[i] = input.readInt32();">>),
   indent |-> indent]

\* Mutant: the printer is left indented.
RepeatedSerializationCodeNoOutdent(v, isPacked, indent) ==
  [printed |->
     PrintLines(indent, <<"if (" \o v.name \o ".length > 0) {">>)
     \o PrintLines(indent + 1, <<"for (int element : " \o v.name \o ") {",
                                 "  output.writeInt32(" \o v.number \o ", element);",
                                 "}">>)
     \o PrintLines(indent + 1, <<"}">>),
   indent |-> indent + 1]

RepeatedSerializationCode(v, isPacked, indent) ==
  [printed |->
     PrintLines(indent, <<"if (" \o v.name \o ".length > 0) {">>)
     \o (IF isPacked                                      \* after Indent()
         THEN PrintLines(indent + 1,
           <<"output.writeRawVarint32(" \o v.tag \o ");",
             "output.writeRawVarint32(" \o v.name \o "MemoizedSerializedSize);",
             "for (int element : " \o v.name \o ") {",
             "  output.writeRawVarint32(element);",
             "}">>)
         ELSE PrintLines(indent + 1,
           <<"for (int element : " \o v.name \o ") {",
             "  output.writeInt32(" \o v.number \o ", element);",
             "}">>))
     \o PrintLines(indent + 1 - 1, <<"}">>),              \* after Outdent()
   indent |-> indent + 1 - 1]

RepeatedSerializedSizeCode(v, isPacked, indent) ==
  [printed |->
     PrintLines(indent, <<"if (" \o v.name \o ".length > 0) {">>)
     \o PrintLines(indent + 1,                            \* after Indent()
          <<"int dataSize = 0;",
            "for (int element : " \o v.name \o ") {",
            "  dataSize += com.google.protobuf.nano.CodedOutputStreamNano",
            "    .computeInt32SizeNoTag(element);",
            "}">>)
     \o PrintLines(indent + 1, <<"size += dataSize;">>)
     \o (IF isPacked
         THEN PrintLines(indent + 1,
           <<"size += " \o v.tag_size \o ";",
             "size += com.google.protobuf.nano.CodedOutputStreamNano",
             "  .computeRawVarint32Size(dataSize);",
             v.name \o "MemoizedSerializedSize = dataSize;">>)
         ELSE PrintLines(indent + 1,
           <<"size += " \o v.tag_size \o " * " \o v.name \o ".length;">>))
     \o (IF isPacked                                      \* after Outdent()
         THEN PrintLines(indent + 1 - 1,
           <<"} else {",
             "  " \o v.name \o "MemoizedSerializedSize = 0;",
             "}">>)
         ELSE PrintLines(indent + 1 - 1, <<"}">>)),
   indent |-> indent + 1 - 1]

VARIABLES
  fieldDescriptor,   \* descriptor_: the FieldDescriptor the generator was given
  variables_,        \* the generator's map of template variables
  indent_,           \* the printer's indentation
  fragment,          \* the lines the last method printed
  emitOp,            \* the last method called
  first,             \* for every method, the lines its first call printed
  again              \* the last call was not the method's first

emitVars == <<fieldDescriptor, variables_, indent_, fragment, emitOp, first, again>>

\* The constructors: SetEnumVariables(params, descriptor, &variables_).
EmitInit ==
  /\ fieldDescriptor \in [name : FieldNames, number : FieldNumbers,
                          repeated : BOOLEAN, packed : BOOLEAN,
                          default : DefaultTexts, containing_type : {"Msg"}]
  /\ variables_ = SetEnumVariables(fieldDescriptor)
  /\ indent_ \in Indents
  /\ fragment = <<>>
  /\ emitOp = "new"
  /\ first = [op \in Ops |-> <<>>]
  /\ again = FALSE

EmitIdle ==
  /\ fieldDescriptor = [name |-> <<"kind">>, number |-> 1, repeated |-> FALSE,
                        packed |-> FALSE, default |-> "0", containing_type |-> "Msg"]
  /\ variables_ = SetEnumVariables(fieldDescriptor)
  /\ indent_ = 0
  /\ fragment = <<>>
  /\ emitOp = "idle"
  /\ first = [op \in Ops |-> <<>>]
  /\ again = FALSE

\* A call of one method of the generator on the printer: its lines are
\* printed and the printer keeps the indentation the method leaves.
Emit(op, result) ==
  /\ fragment' = result.printed
  /\ indent_' = result.indent
  /\ emitOp' = op
  /\ again' = (first[op] # <<>>)
  /\ first' = (IF first[op] = <<>> THEN [first EXCEPT ![op] = result.printed] ELSE first)
  /\ UNCHANGED <<fieldDescriptor, variables_>>

GenerateMembers ==
  Emit("storage",
       IF fieldDescriptor.repeated
       THEN RepeatedMembers(variables_, fieldDescriptor.packed, indent_)
       ELSE EnumFieldMembers(variables_, indent_))

GenerateMergingCode ==
  Emit("merge",
       IF fieldDescriptor.repeated
       THEN RepeatedMergingCode(variables_, indent_)
       ELSE EnumFieldMergingCode(variables_, indent_))

GenerateParsingCode ==
  Emit("parse",
       IF fieldDescriptor.repeated
       THEN RepeatedParsingCode(variables_, fieldDescriptor.packed, indent_)
       ELSE EnumFieldParsingCode(variables_, indent_))

GenerateSerializationCode ==
  Emit("serialize",
       IF fieldDescriptor.repeated
       THEN RepeatedSerializationCode(variables_, fieldDescriptor.packed, indent_)
       ELSE EnumFieldSerializationCode(variables_, indent_))

GenerateSerializedSizeCode ==
  Emit("size",
       IF fieldDescriptor.repeated
       THEN RepeatedSerializedSizeCode(variables_, fieldDescriptor.packed, indent_)
       ELSE EnumFieldSerializedSizeCode(variables_, indent_))

vars == <<fieldVars, enumVars, singularVars, emitVars>>

\* No generator runs beside the message instance, and no instance beside the
\* generator.
EnumIdle ==
  /\ descriptor_ = <<>>
  /\ java_enum_style = FALSE
  /\ canonical_values_ = <<>>
  /\ aliases_ = <<>>
  /\ printed = <<>>
  /\ pc = "idle"
  /\ i = 0

FieldIdle ==
  /\ packed = FALSE
  /\ number = 1
  /\ field = <<>>
  /\ MemoizedSerializedSize = 0
  /\ other = <<>>
  /\ size = 0
  /\ output = <<>>
  /\ thrown = FALSE
  /\ lastOp = "idle"
  /\ fresh = FALSE
  /\ memoBefore = 0
  /\ run = <<>>

\* The operations of one instance of a message with a repeated enum field.
Init == FieldInit /\ EnumIdle /\ SingularIdle /\ EmitIdle

Next ==
  \/ Merge /\ UNCHANGED <<enumVars, singularVars, emitVars>>
  \/ Parse /\ UNCHANGED <<enumVars, singularVars, emitVars>>
  \/ Size /\ UNCHANGED <<enumVars, singularVars, emitVars>>
  \/ Serialize /\ UNCHANGED <<enumVars, singularVars, emitVars>>

Spec == Init /\ [][Next]_vars

\* One EnumGenerator: construction, then Generate.
InitEnum == EnumInit /\ FieldIdle /\ SingularIdle /\ EmitIdle

NextEnum ==
  \/ ConstructorStep /\ UNCHANGED <<fieldVars, singularVars, emitVars>>
  \/ GenerateStart /\ UNCHANGED <<fieldVars, singularVars, emitVars>>
  \/ GenerateCanonical /\ UNCHANGED <<fieldVars, singularVars, emitVars>>
  \/ GenerateAliasesStart /\ UNCHANGED <<fieldVars, singularVars, emitVars>>
  \/ GenerateAlias /\ UNCHANGED <<fieldVars, singularVars, emitVars>>
  \/ GenerateEnd /\ UNCHANGED <<fieldVars, singularVars, emitVars>>

SpecEnum == InitEnum /\ [][NextEnum]_vars

\* One instance of a message with a singular enum field.
InitSingular == SingularInit /\ FieldIdle /\ EnumIdle /\ EmitIdle

NextSingular ==
  \/ SingularAssign /\ UNCHANGED <<fieldVars, enumVars, emitVars>>
  \/ SingularMerge /\ UNCHANGED <<fieldVars, enumVars, emitVars>>
  \/ SingularParse /\ UNCHANGED <<fieldVars, enumVars, emitVars>>
  \/ SingularSize /\ UNCHANGED <<fieldVars, enumVars, emitVars>>
  \/ SingularSerialize /\ UNCHANGED <<fieldVars, enumVars, emitVars>>

SpecSingular == InitSingular /\ [][NextSingular]_vars

\* One field generator and the calls of its five methods, in any order.
InitEmit == EmitInit /\ FieldIdle /\ EnumIdle /\ SingularIdle

NextEmit ==
  \/ GenerateMembers /\ UNCHANGED <<fieldVars, enumVars, singularVars>>
  \/ GenerateMergingCode /\ UNCHANGED <<fieldVars, enumVars, singularVars>>
  \/ GenerateParsingCode /\ UNCHANGED <<fieldVars, enumVars, singularVars>>
  \/ GenerateSerializationCode /\ UNCHANGED <<fieldVars, enumVars, singularVars>>
  \/ GenerateSerializedSizeCode /\ UNCHANGED <<fieldVars, enumVars, singularVars>>

SpecEmit == InitEmit /\ [][NextEmit]_vars

\* ------------------------------------------------------------- claims
\* What a reader finds in the bytes of a packed occurrence: the length prefix
\* that follows the tag, and the bytes that follow the prefix.
WrittenPrefix == readRawVarint32(readTag(output).rest)

\* C1: packed field, non-empty S, Size then Serialize with S unchanged in
\* between: the bytes written are exactly the size Size computed (tag +
\* length prefix + payload), the written prefix is the number of payload
\* bytes written, and packed Parse of the bytes gives back S in order.
C1_PackedSizeSerializeConsistent ==
  (packed /\ lastOp = "Serialize" /\ fresh /\ Len(field) > 0) =>
    /\ Len(output) = size
    /\ WrittenPrefix.ok
    /\ WrittenPrefix.value = Len(WrittenPrefix.rest)
    /\ ParseOccurrence(<<>>, output, number, TRUE)
         = [thrown |-> FALSE, name |-> field, rest |-> <<>>]

\* C2: packed Serialize on a non-empty sequence writes as length prefix the
\* value the cache cell holds at that moment, whatever the elements are now,
\* leaves the cell as it is and signals no error.
C2_SerializeWritesCachedLength ==
  (packed /\ lastOp = "Serialize" /\ Len(field) > 0) =>
    /\ WrittenPrefix.ok
    /\ WrittenPrefix.value = memoBefore
    /\ MemoizedSerializedSize = memoBefore
    /\ ~thrown

\* C2 witness: Serialize ran after the elements changed since the last Size,
\* and the prefix it wrote is not the payload size of the current elements.
C2_StalePrefixWritten ==
  /\ packed /\ lastOp = "Serialize" /\ Len(field) > 0 /\ ~fresh /\ ~thrown
  /\ WrittenPrefix.value # DataSize(field)

\* C3 as stated: packed Serialize on an empty sequence writes nothing and the
\* cache cell is zero afterwards.
C3_EmptySerializeZeroesCache ==
  (packed /\ lastOp = "Serialize" /\ Len(field) = 0) =>
    /\ output = <<>>
    /\ MemoizedSerializedSize = 0

\* C3 amended: packed Serialize on an empty sequence writes nothing and
\* leaves the cache cell as it found it.
C3_EmptySerializeKeepsCache ==
  (packed /\ lastOp = "Serialize" /\ Len(field) = 0) =>
    /\ output = <<>>
    /\ MemoizedSerializedSize = memoBefore

\* C3 witness: Serialize ran on an empty sequence with a nonzero cache.
C3_EmptySerializeStaleCache ==
  packed /\ lastOp = "Serialize" /\ Len(field) = 0 /\ memoBefore > 0

\* C4: packed field, Size on an empty sequence: the cache reads 0 whatever it
\* held, nothing is added to size, and a following Serialize writes nothing.
C4_SizeOnEmptyResetsCache ==
  /\ (packed /\ lastOp = "Size" /\ Len(field) = 0) =>
       (MemoizedSerializedSize = 0 /\ size = 0)
  /\ (packed /\ lastOp = "Serialize" /\ fresh /\ Len(field) = 0) =>
       (MemoizedSerializedSize = 0 /\ size = 0 /\ output = <<>>)

\* C4 witness: Size ran on an empty sequence and found a nonzero cache.
C4_SizeOnEmptyFoundStaleCache ==
  packed /\ lastOp = "Size" /\ Len(field) = 0 /\ memoBefore > 0

\* C5: a packed occurrence parsed right after another one of the same message
\* adds its elements after those already parsed.
C5_PackedOccurrencesCompose ==
  [][(packed /\ lastOp = "Parse" /\ lastOp' = "Parse") =>
       (~thrown' /\ field' = field \o run')]_vars

\* C6: after Merge the destination is D followed by S, in order (unchanged for
\* an empty S), and no exception ends the merge.
C6_MergeAppendOnly ==
  [][lastOp' = "Merge" => (~thrown' /\ field' = field \o other')]_vars

\* C7: unpacked Serialize writes nothing for an empty sequence and otherwise
\* one tag and one value per element, so that unpacked Parse of the bytes
\* into a field holding E gives E followed by S.
C7_UnpackedRoundTrip ==
  (~packed /\ lastOp = "Serialize") =>
    IF Len(field) = 0 THEN output = <<>>
    ELSE \A E \in Runs :
           ParseOccurrence(E, output, number, FALSE)
             = [thrown |-> FALSE, name |-> E \o field, rest |-> <<>>]

\* C7 witness: an unpacked field with a negative element, twice, was written.
C7_UnpackedWritten ==
  /\ ~packed /\ lastOp = "Serialize" /\ Len(field) >= 2
  /\ field[1] < 0 /\ field[2] = field[1]
  /\ output # <<>>

\* The constants Generate printed, in order, and the first value declared
\* with the number of value k.
Constants == SelectSeq(printed, LAMBDA line : line.kind = "const")

FirstDeclared(k) ==
  CHOOSE f \in 1..k :
    /\ descriptor_[f].number = descriptor_[k].number
    /\ \A j \in 1..(f - 1) : descriptor_[j].number # descriptor_[k].number

InList(list, x) == \E n \in 1..Len(list) : list[n] = x

\* C8: once constructed, a value is in canonical_values_ exactly when no
\* value declared before it has its number, whatever the numbers' order; every
\* other value is in aliases_ with the first value declared with its number
\* as canonical_value.
C8_CanonicalIsFirstDeclared ==
  (pc # "EnumGenerator" /\ pc # "idle") =>
    \A k \in 1..Len(descriptor_) :
      /\ InList(canonical_values_, k) <=> (FirstDeclared(k) = k)
      /\ FirstDeclared(k) # k =>
           InList(aliases_, [value |-> k, canonical_value |-> FirstDeclared(k)])

\* C8 witness: a number is declared twice with a smaller number declared in
\* between, and the generator is constructed.
C8_AliasAfterSmallerNumber ==
  /\ pc = "canonical" /\ Len(descriptor_) >= 3
  /\ descriptor_[1].number = descriptor_[3].number
  /\ descriptor_[2].number < descriptor_[1].number
  /\ Len(aliases_) = 1

\* C9: the canonical_value of every entry of aliases_ is in canonical_values_,
\* is no entry's alias value, has the alias's number, and resolving it again
\* gives the same value.
C9_AliasResolvesToCanonical ==
  \A n \in 1..Len(aliases_) :
    LET alias == aliases_[n]
    IN  /\ InList(canonical_values_, alias.canonical_value)
        /\ \A m \in 1..Len(aliases_) : aliases_[m].value # alias.canonical_value
        /\ descriptor_[alias.canonical_value].number = descriptor_[alias.value].number
        /\ alias.value # alias.canonical_value
        /\ FindValueByNumber(descriptor_, descriptor_[alias.canonical_value].number)
             = alias.canonical_value

\* C9 witness: two aliases of one canonical value.
C9_TwoAliasesOfOneValue ==
  /\ Len(aliases_) >= 2
  /\ aliases_[1].canonical_value = aliases_[2].canonical_value

\* C10: every declared value is in exactly one of canonical_values_ and
\* aliases_ (once), and Generate prints exactly one constant per declared
\* value: the constant of a value of canonical_values_ is its number, the
\* constant of an alias is the name of the constant printed for its
\* canonical_value; nothing is printed as a constant for no values.
C10_OneConstantPerValue ==
  /\ (pc # "EnumGenerator" /\ pc # "idle") =>
       /\ Len(canonical_values_) + Len(aliases_) = Len(descriptor_)
       /\ \A k \in 1..Len(descriptor_) :
            Cardinality({n \in 1..Len(canonical_values_) : canonical_values_[n] = k})
            + Cardinality({n \in 1..Len(aliases_) : aliases_[n].value = k}) = 1
  /\ pc = "done" =>
       /\ Len(Constants) = Len(descriptor_)
       /\ \A k \in 1..Len(descriptor_) :
            Cardinality({n \in 1..Len(Constants) :
                           Constants[n].name = RenameJavaKeywords(descriptor_[k].name)}) = 1
       /\ \A n \in 1..Len(canonical_values_) :
            InList(Constants,
                   [kind |-> "const",
                    name |-> RenameJavaKeywords(descriptor_[canonical_values_[n]].name),
                    value |-> SimpleItoa(descriptor_[canonical_values_[n]].number)])
       /\ \A n \in 1..Len(aliases_) :
            /\ InList(Constants,
                 [kind |-> "const",
                  name |-> RenameJavaKeywords(descriptor_[aliases_[n].value].name),
                  value |-> RenameJavaKeywords(descriptor_[aliases_[n].canonical_value].name)])
            /\ InList(Constants,
                 [kind |-> "const",
                  name |-> RenameJavaKeywords(descriptor_[aliases_[n].canonical_value].name),
                  value |-> SimpleItoa(descriptor_[aliases_[n].value].number)])
       /\ Len(descriptor_) = 0 => Constants = <<>>

\* C10 witness: Generate is done for an enumeration with a canonical value
\* and an alias of it.
C10_GeneratedWithAlias ==
  pc = "done" /\ Len(aliases_) >= 1 /\ Len(Constants) >= 2

\* C11: what Serialize wrote for a singular field whose value differs from
\* the default parses back to exactly that value, whatever the field held,
\* with nothing left over; for the default value Serialize wrote nothing, as
\* for a field never assigned.  A number read from the wire is stored as it
\* was sent.
C11_DefaultElisionRoundTrip ==
  /\ singularOp = "Serialize" =>
       IF singular = singularDefault THEN singularOutput = <<>>
       ELSE \A held \in Ints :
              ParseSingular(held, singularOutput, singularNumber)
                = [thrown |-> FALSE, name |-> singular, rest |-> <<>>]
  /\ singularOp = "Parse" => (~singularThrown /\ singular = sent)

\* C11 witness: a negative number no default equals was written.
C11_NegativeWritten ==
  singularOp = "Serialize" /\ singular = MinInt /\ Len(singularOutput) = 11

\* C12: what Size adds for a singular field is zero for the default value
\* and otherwise the tag size plus the encoding size of the value, and it is
\* the number of bytes Serialize writes for that value.
C12_SingularSizeIsBytesWritten ==
  singularOp = "Size" =>
    /\ singularSize = Len(SingularSerializationCode(singular, singularDefault, singularNumber))
    /\ singularSize = (IF singular = singularDefault THEN 0
                       ELSE TagSize(singularNumber) + Len(writeInt32NoTag(singular)))

\* C12 witness: Size ran on a negative value under a two-byte tag.
C12_SizeOfNegative ==
  singularOp = "Size" /\ singular = -1 /\ singularDefault # -1 /\ singularSize = 12

\* C13: a call of any of the five methods leaves the descriptor, the
\* variable map and the printer's indentation as it found them, and prints
\* the lines the method's first call printed, whatever was called in
\* between.
C13_EmitOperationsIndependent ==
  [][/\ fieldDescriptor' = fieldDescriptor
     /\ variables_' = variables_
     /\ indent_' = indent_
     /\ fragment' = first'[emitOp']
     /\ variables_' = SetEnumVariables(fieldDescriptor')]_vars

\* C13 witness: every method of a packed repeated field's generator has been
\* called, and the last call repeated one.
C13_EveryMethodCalledAndOneRepeated ==
  /\ fieldDescriptor.repeated /\ fieldDescriptor.packed
  /\ \A op \in Ops : first[op] # <<>>
  /\ again /\ emitOp = "storage"

\* C14: after Size on a packed field the cache cell holds the sum of the
\* encoding sizes of the elements, whatever it held before (zero for no
\* elements), and for a non-empty field Size added one tag size, the
\* encoding size of that sum, and the sum.
C14_PackedSizeCachesPayload ==
  (packed /\ lastOp = "Size") =>
    /\ MemoizedSerializedSize = Len(Payload(field))
    /\ Len(field) > 0 =>
         size = TagSize(number)
                + Len(writeRawVarint32(MemoizedSerializedSize))
                + MemoizedSerializedSize

\* C14 witness: Size replaced a cache value that was neither zero nor the
\* sum for the current elements.
C14_SizeOverwroteStaleCache ==
  /\ packed /\ lastOp = "Size" /\ Len(field) > 0
  /\ memoBefore # 0 /\ memoBefore # MemoizedSerializedSize

\* C15: for an unpacked field Size adds the tag size for every element plus
\* the sum of the encoding sizes of the elements, which is the number of
\* bytes Serialize writes for the same elements (zero for none).
C15_UnpackedSizeIsBytesWritten ==
  (~packed /\ lastOp = "Size") =>
    /\ size = TagSize(number) * Len(field) + Len(Payload(field))
    /\ size = Len(SerializationCode(field, MemoizedSerializedSize, number, FALSE))
    /\ Len(field) = 0 => size = 0

\* C15 witness: Size ran on two elements, one negative, under a two-byte tag.
C15_SizeOfTwoUnpacked ==
  ~packed /\ lastOp = "Size" /\ field = <<-3, 300>> /\ number = 16 /\ size = 16

\* C16: a packed Parse of one occurrence whose span the helper counts as n
\* elements leaves the field holding exactly those n elements in wire
\* order and throws nothing; whatever the field holds when the occurrence is
\* parsed, the result is those elements, and the bytes behind the occurrence
\* are left unread.
C16_PackedParseReplaces ==
  (packed /\ lastOp = "Parse") =>
    /\ ~thrown
    /\ field = run
    /\ Len(field) = getPackedRepeatedFieldArrayLength(Payload(run))
    /\ \A held \in Runs :
         ParseOccurrence(held, WireOccurrence(run, number, TRUE) \o <<0>>, number, TRUE)
           = [thrown |-> FALSE, name |-> run, rest |-> <<0>>]

\* C16 witness: the cache cell still holds the size of two negative
\* elements, and a Parse has left the one element of its occurrence.
C16_ParsedOverTwoElements ==
  /\ packed /\ lastOp = "Parse" /\ ~thrown
  /\ field = <<300>> /\ run = <<300>> /\ MemoizedSerializedSize = 20

\* What may follow a run of an unpacked field on the wire: the end of the
\* input, another field, or the same field number with another wire type.
Followers(num) ==
  {<<>>, writeInt32(num + 1, 5), writeRawVarint32(MakeTag(num, TRUE)) \o <<0>>}

\* C17: an unpacked Parse of a run of n elements (n at least 1) appends the
\* n elements, reads the n values and the n - 1 tags between them and stops
\* before whatever follows the run, and writes no index outside the grown
\* array.
C17_UnpackedParseReadsRun ==
  [][(~packed /\ lastOp' = "Parse") =>
       /\ ~thrown'
       /\ field' = field \o run'
       /\ getRepeatedFieldArrayLength(
            readTag(WireOccurrence(run', number, FALSE)).rest, MakeTag(number, FALSE))
          = Len(run')
       /\ \A following \in Followers(number) :
            ParseOccurrence(field, WireOccurrence(run', number, FALSE) \o following,
                            number, FALSE)
              = [thrown |-> FALSE, name |-> field \o run', rest |-> following]]_vars

\* C17 witness: a run of two elements was parsed, and with another field
\* behind it the parse stops at that field's tag.
C17_RunOfTwoParsed ==
  /\ ~packed /\ lastOp = "Parse" /\ ~thrown /\ Len(run) = 2 /\ field = run
  /\ ParseOccurrence(<<>>, WireOccurrence(run, number, FALSE) \o writeInt32(number + 1, 5),
                     number, FALSE).rest = writeInt32(number + 1, 5)

\* C18: on a packed field Merge and Parse leave the cache cell as it is,
\* Serialize leaves the cache cell and the elements as they are and writes
\* the cell as the prefix of a non-empty field, Size leaves the elements as
\* they are; only Size changes the cache cell.
C18_PackedFrameConditions ==
  [][packed =>
       /\ lastOp' \in {"Merge", "Parse"} => MemoizedSerializedSize' = MemoizedSerializedSize
       /\ lastOp' = "Serialize" =>
            /\ MemoizedSerializedSize' = MemoizedSerializedSize
            /\ field' = field
            /\ Len(field) > 0 =>
                 readRawVarint32(readTag(output').rest).value = MemoizedSerializedSize
       /\ lastOp' = "Size" => field' = field
       /\ MemoizedSerializedSize' # MemoizedSerializedSize => lastOp' = "Size"]_vars

\* C18 witness: a Merge changed the elements under a cache cell that is not
\* zero.
C18_MergedUnderCache ==
  /\ packed /\ lastOp = "Merge" /\ ~thrown /\ ~fresh
  /\ MemoizedSerializedSize # 0 /\ Len(field) = 2

====
